---- MODULE Spec2Model ----
(***************************************************************************)
(* api-gen: rendering of an API schema (src/src/main.rs) as interface      *)
(* declarations.  The renderers are pure functions over the schema tree;   *)
(* they are modelled as recursive operators that return either the         *)
(* rendered text or the panic that unwinds out of them.  Three             *)
(* specifications exercise them:                                           *)
(*   SpecType    one schema, built bottom-up, given to render_field_type   *)
(*   SpecFields  one field map, built by insertion, given to render_fields *)
(*   Spec        a run of main: load the catalog, render, write the file   *)
(***************************************************************************)
EXTENDS Integers, Sequences, FiniteSets, TLC

VARIABLES
    obj,        \* SpecType: the schema given to render_field_type; SpecFields: Option of the composite schema being built
    fields,     \* SpecFields: the BTreeMap<String, ApiDocsModel> being rendered
    ins,        \* SpecFields: the (name, schema) pairs in the order they were inserted into `fields`
    rendered,   \* result of the renderer under test (NotRendered before it ran)
    models,     \* Spec: api_docs.models, BTreeMap<String, ApiDocsModelObject>
    pc,         \* Spec: position in main
    interfaces, \* Spec: the local `interfaces` of main (NotRendered before line 156)
    out_file,   \* Spec: the file at args.out: [exists, content]
    out_file0   \* Spec: the file at args.out as it was when the program started

vars == <<obj, fields, ins, rendered, models, pc, interfaces, out_file, out_file0>>

---------------------------------------------------------------------------
(* Bounds of the model *)

\* SpecType: number of composite levels wrapped around a leaf schema
MaxDepth == 2
\* SpecFields: number of schema nodes built (inserted, wrapped or closed) in one behaviour
MaxNodes == 4
\* Spec: number of models the loader inserts into the catalog
MaxModels == 2

---------------------------------------------------------------------------
(* Strings.  Rust compares String byte-wise; the names used here are ASCII. *)

Lower == "abcdefghijklmnopqrstuvwxyz"
Upper == "ABCDEFGHIJKLMNOPQRSTUVWXYZ"
Digit == "0123456789"

CharAt(s, i) == SubSeq(s, i, i)

RECURSIVE IndexOf(_, _, _)
\* position of character c in s at or after i, 0 when absent
IndexOf(c, s, i) ==
    IF i > Len(s) THEN 0
    ELSE IF CharAt(s, i) = c THEN i
    ELSE IndexOf(c, s, i + 1)

\* the ASCII characters of the names
Characters ==
    { CharAt(Lower, i) : i \in 1..Len(Lower) } \cup { CharAt(Upper, i) : i \in 1..Len(Upper) }
        \cup { CharAt(Digit, i) : i \in 1..Len(Digit) } \cup {"_", "-"}

\* the byte of each of them
Ascii ==
    [c \in Characters |->
        LET l == IndexOf(c, Lower, 1)
            u == IndexOf(c, Upper, 1)
            d == IndexOf(c, Digit, 1)
        IN  IF l > 0 THEN 96 + l
            ELSE IF u > 0 THEN 64 + u
            ELSE IF d > 0 THEN 47 + d
            ELSE IF c = "_" THEN 95
            ELSE 45]

\* the byte of an ASCII character
CharCode(c) == Ascii[c]

RECURSIVE StrLess(_, _)
\* a < b for String: lexicographic on bytes, a proper prefix is smaller
StrLess(a, b) ==
    IF a = "" THEN b # ""
    ELSE IF b = "" THEN FALSE
    ELSE IF Head(a) = Head(b) THEN StrLess(Tail(a), Tail(b))
    ELSE CharCode(Head(a)) < CharCode(Head(b))

---------------------------------------------------------------------------
(* Option<T> is a sequence of at most one element *)

None == <<>>
Some(x) == <<x>>

(* BTreeMap<String, V> is the sequence of its <<key, value>> entries in     *)
(* ascending key order, which is the order `iter()` visits them in.         *)

RECURSIVE InsertAppend(_, _, _)
\* mutant of Insert: keeps insertion order (a replaced key keeps its place)
InsertAppend(m, k, v) ==
    IF m = <<>> THEN << <<k, v>> >>
    ELSE IF m[1][1] = k THEN << <<k, v>> >> \o Tail(m)
    ELSE << m[1] >> \o InsertAppend(Tail(m), k, v)

RECURSIVE Insert(_, _, _)
\* BTreeMap::insert: the entry goes to its place in key order; an equal key is replaced
Insert(m, k, v) ==
    IF m = <<>> THEN << <<k, v>> >>
    ELSE IF m[1][1] = k THEN << <<k, v>> >> \o Tail(m)
    ELSE IF StrLess(k, m[1][1]) THEN << <<k, v>> >> \o m
    ELSE << m[1] >> \o Insert(Tail(m), k, v)

RECURSIVE FromEntries(_)
\* BTreeMap::from([(K, V); N]) / collect: the entries inserted first to last
FromEntries(es) ==
    IF es = <<>> THEN <<>>
    ELSE Insert(FromEntries(SubSeq(es, 1, Len(es) - 1)), es[Len(es)][1], es[Len(es)][2])

Keys(m) == { m[i][1] : i \in 1..Len(m) }

---------------------------------------------------------------------------
(* The schema *)

ApiDocsModelObjectType == {"String", "Number", "Boolean", "Object", "Array", "Enum"}

ApiDocsModel(t, f, m, mem, req) ==
    [type |-> t, fields |-> f, model |-> m, members |-> mem, required |-> req]

---------------------------------------------------------------------------
(* Results: a call returns a String or panics; a panic unwinds through      *)
(* every caller, none of which catches it.                                  *)

Returned(s) == [outcome |-> "returned", value |-> s]
Panicked(msg) == [outcome |-> "panic", value |-> msg]
NotRendered == [outcome |-> "none", value |-> ""]

\* the panic messages of the two expect calls and of todo!() (the backquotes of
\* the source's messages are left out: a TLA+ string cannot hold them)
ExpectModelMsg == "model must be present if type is \"array\""
ExpectFieldsMsg == "fields must be set if type is \"object\"."
TodoMsg == "not yet implemented"

RECURSIVE render_field_type(_), render_field(_, _), render_fields(_)

\* mutant of inner_type: a missing child renders as an empty type
inner_type_lenient(o) ==
    CASE o.type = "String" -> Returned("string")
      [] o.type = "Number" -> Returned("number")
      [] o.type = "Boolean" -> Returned("boolean")
      [] o.type = "Array" ->
            IF o.model = None THEN Returned("Array<>")
            ELSE LET r == render_field_type(o.model[1])
                 IN  IF r.outcome = "panic" THEN r
                     ELSE Returned("Array<" \o r.value \o ">")
      [] o.type = "Object" ->
            IF o.fields = None THEN Returned("{  }")
            ELSE LET r == render_fields(o.fields[1])
                 IN  IF r.outcome = "panic" THEN r
                     ELSE Returned("{ " \o r.value \o " }")
      [] OTHER -> Panicked(TodoMsg)

\* mutant of inner_type: a scalar kind with a populated part is rejected
inner_type_strict(o) ==
    CASE o.type \in {"String", "Number", "Boolean"}
         /\ (o.fields # None \/ o.model # None \/ o.members # None) -> Panicked(TodoMsg)
      [] o.type = "String" -> Returned("string")
      [] o.type = "Number" -> Returned("number")
      [] o.type = "Boolean" -> Returned("boolean")
      [] o.type = "Array" ->
            IF o.model = None THEN Panicked(ExpectModelMsg)
            ELSE LET r == render_field_type(o.model[1])
                 IN  IF r.outcome = "panic" THEN r
                     ELSE Returned("Array<" \o r.value \o ">")
      [] o.type = "Object" ->
            IF o.fields = None THEN Panicked(ExpectFieldsMsg)
            ELSE LET r == render_fields(o.fields[1])
                 IN  IF r.outcome = "panic" THEN r
                     ELSE Returned("{ " \o r.value \o " }")
      [] OTHER -> Panicked(TodoMsg)

\* mutant of inner_type: the fields of an object are written without the braces' spaces
inner_type_tight(o) ==
    CASE o.type = "String" -> Returned("string")
      [] o.type = "Number" -> Returned("number")
      [] o.type = "Boolean" -> Returned("boolean")
      [] o.type = "Array" ->
            IF o.model = None THEN Panicked(ExpectModelMsg)
            ELSE LET r == render_field_type(o.model[1])
                 IN  IF r.outcome = "panic" THEN r
                     ELSE Returned("Array<" \o r.value \o ">")
      [] o.type = "Object" ->
            IF o.fields = None THEN Panicked(ExpectFieldsMsg)
            ELSE LET r == render_fields(o.fields[1])
                 IN  IF r.outcome = "panic" THEN r
                     ELSE Returned("{" \o r.value \o "}")
      [] OTHER -> Panicked(TodoMsg)

\* the `match &obj.r#type` of render_field_type: the type before the Optional wrapping
inner_type(o) ==
    CASE o.type = "String" -> Returned("string")
      [] o.type = "Number" -> Returned("number")
      [] o.type = "Boolean" -> Returned("boolean")
      [] o.type = "Array" ->
            IF o.model = None THEN Panicked(ExpectModelMsg)
            ELSE LET r == render_field_type(o.model[1])
                 IN  IF r.outcome = "panic" THEN r
                     ELSE Returned("Array<" \o r.value \o ">")
      [] o.type = "Object" ->
            IF o.fields = None THEN Panicked(ExpectFieldsMsg)
            ELSE LET r == render_fields(o.fields[1])
                 IN  IF r.outcome = "panic" THEN r
                     ELSE Returned("{ " \o r.value \o " }")
      [] OTHER -> Panicked(TodoMsg)

\* mutant of render_field_type: wraps the required schemas instead of the others
render_field_type_inverted(o) ==
    LET inner == inner_type(o)
    IN  IF inner.outcome = "panic" THEN inner
        ELSE IF o.required THEN Returned("Optional<" \o inner.value \o ">")
        ELSE inner

\* mutant of render_field_type: an array type is never wrapped
render_field_type_bare_array(o) ==
    LET inner == inner_type(o)
    IN  IF inner.outcome = "panic" THEN inner
        ELSE IF ~o.required /\ o.type # "Array" THEN Returned("Optional<" \o inner.value \o ">")
        ELSE inner

\* fn render_field_type(obj: &ApiDocsModel) -> String
render_field_type(o) ==
    LET inner == inner_type(o)
    IN  IF inner.outcome = "panic" THEN inner
        ELSE IF ~o.required THEN Returned("Optional<" \o inner.value \o ">")
        ELSE inner

\* mutant of render_field: the optionality marker is never written
render_field_unmarked(name, model) ==
    LET t == render_field_type(model)
    IN  IF t.outcome = "panic" THEN t
        ELSE Returned(name \o ": " \o t.value \o ",")

\* fn render_field(name: &str, model: &ApiDocsModel) -> String
render_field(name, model) ==
    LET opt == IF model.required THEN "" ELSE "?"
        t == render_field_type(model)
    IN  IF t.outcome = "panic" THEN t
        ELSE Returned(name \o opt \o ": " \o t.value \o ",")

\* fn render_fields(obj: &ApiDocsModelsObject) -> String
render_fields(m) ==
    IF m = <<>> THEN Returned("")
    ELSE LET h == render_field(m[1][1], m[1][2])
         IN  IF h.outcome = "panic" THEN h
             ELSE LET t == render_fields(Tail(m))
                  IN  IF t.outcome = "panic" THEN t
                      ELSE Returned(h.value \o t.value)

\* fn render_interface(name: &str, obj: &ApiDocsModelObject) -> String
render_interface(name, m) ==
    LET f == render_fields(m)
    IN  IF f.outcome = "panic" THEN f
        ELSE Returned("interface " \o name \o " { " \o f.value \o " }")

---------------------------------------------------------------------------
(* heck::AsPascalCase.  The crate is not part of the repository's sources;  *)
(* the conversion is modelled as the specification describes it (the first  *)
(* letter of each word segment capitalized, the delimiters removed), with   *)
(* the crate's word boundaries: a character that is not alphanumeric, a     *)
(* lower-case letter followed by an upper-case one, and the last capital of *)
(* a run of capitals followed by a lower-case letter.                       *)

IsLower(c) == c \in Characters /\ Ascii[c] >= 97
IsUpper(c) == c \in Characters /\ Ascii[c] >= 65 /\ Ascii[c] <= 90
IsAlphanumeric(c) == IsLower(c) \/ IsUpper(c) \/ (c \in Characters /\ Ascii[c] >= 48 /\ Ascii[c] <= 57)

ToUpper(c) == IF IsLower(c) THEN CharAt(Upper, IndexOf(c, Lower, 1)) ELSE c
ToLower(c) == IF IsUpper(c) THEN CharAt(Lower, IndexOf(c, Upper, 1)) ELSE c

RECURSIVE ToLowercase(_)
ToLowercase(s) == IF s = "" THEN "" ELSE ToLower(Head(s)) \o ToLowercase(Tail(s))

\* the first character in upper case, the rest in lower case
Capitalize(w) == IF w = "" THEN "" ELSE ToUpper(Head(w)) \o ToLowercase(Tail(w))

RECURSIVE CamelWords(_, _, _, _)
\* the words of the alphanumeric segment w from position init on, capitalized
\* and joined; i is the character looked at, mode the case of the word so far
CamelWords(w, i, init, mode) ==
    IF i > Len(w) THEN ""
    ELSE IF i = Len(w) THEN Capitalize(SubSeq(w, init, Len(w)))
    ELSE LET c == CharAt(w, i)
             next == CharAt(w, i + 1)
             next_mode == IF IsLower(c) THEN "lowercase"
                          ELSE IF IsUpper(c) THEN "uppercase"
                          ELSE mode
         IN  IF next_mode = "lowercase" /\ IsUpper(next)
             THEN Capitalize(SubSeq(w, init, i)) \o CamelWords(w, i + 1, i + 1, "boundary")
             ELSE IF mode = "uppercase" /\ IsUpper(c) /\ IsLower(next)
             THEN Capitalize(SubSeq(w, init, i - 1)) \o CamelWords(w, i + 1, i, "boundary")
             ELSE CamelWords(w, i + 1, init, next_mode)

RECURSIVE SegmentEnd(_, _)
\* position of the first character of s at or after i that is not alphanumeric
SegmentEnd(s, i) ==
    IF i > Len(s) \/ ~IsAlphanumeric(CharAt(s, i)) THEN i ELSE SegmentEnd(s, i + 1)

RECURSIVE AsPascalCase(_)
AsPascalCase(s) ==
    IF s = "" THEN ""
    ELSE LET k == SegmentEnd(s, 1)
         IN  CamelWords(SubSeq(s, 1, k - 1), 1, 1, "boundary")
                 \o AsPascalCase(SubSeq(s, k + 1, Len(s)))

RECURSIVE render_interfaces_raw_names(_)
\* mutant of render_interfaces: the catalog key is used as the interface name
render_interfaces_raw_names(ms) ==
    IF ms = <<>> THEN Returned("")
    ELSE LET h == render_interface(ms[1][1], ms[1][2])
         IN  IF h.outcome = "panic" THEN h
             ELSE LET t == render_interfaces_raw_names(Tail(ms))
                  IN  IF t.outcome = "panic" THEN t
                      ELSE Returned(h.value \o t.value)

RECURSIVE render_interfaces(_)
\* fn render_interfaces(models: &BTreeMap<String, ApiDocsModelObject>) -> String
render_interfaces(ms) ==
    IF ms = <<>> THEN Returned("")
    ELSE LET name == AsPascalCase(ms[1][1])
             h == render_interface(name, ms[1][2])
         IN  IF h.outcome = "panic" THEN h
             ELSE LET t == render_interfaces(Tail(ms))
                  IN  IF t.outcome = "panic" THEN t
                      ELSE Returned(h.value \o t.value)

---------------------------------------------------------------------------
(* Walks over a schema tree *)

RECURSIVE Subschemas(_)
\* every schema of the tree, whether or not its parent's kind uses it
Subschemas(o) ==
    {o} \cup (IF o.model = None THEN {} ELSE Subschemas(o.model[1]))
        \cup (IF o.fields = None THEN {}
              ELSE UNION { Subschemas(o.fields[1][i][2]) : i \in 1..Len(o.fields[1]) })

RECURSIVE Visited(_)
\* the schemas render_field_type is called on when nothing panics before them
Visited(o) ==
    {o} \cup (IF o.type = "Array" /\ o.model # None THEN Visited(o.model[1]) ELSE {})
        \cup (IF o.type = "Object" /\ o.fields # None
              THEN UNION { Visited(o.fields[1][i][2]) : i \in 1..Len(o.fields[1]) }
              ELSE {})

RECURSIVE Depth(_)
Depth(o) ==
    LET below == { Depth(c) : c \in (IF o.model = None THEN {} ELSE {o.model[1]})
                                \cup (IF o.fields = None THEN {}
                                      ELSE { o.fields[1][i][2] : i \in 1..Len(o.fields[1]) }) }
    IN  IF below = {} THEN 0 ELSE 1 + (CHOOSE d \in below : \A e \in below : e <= d)

---------------------------------------------------------------------------
(* SpecType: a schema is built bottom-up, as the tests build theirs, and    *)
(* given to render_field_type.                                              *)

\* the schemas without children: every kind, required or not, members absent or present
LeafSchemas ==
    { ApiDocsModel(t, None, None, mem, r) :
        t \in ApiDocsModelObjectType, mem \in {None, Some(<<>>)}, r \in BOOLEAN }

Idle ==
    /\ fields = <<>> /\ ins = <<>> /\ models = <<>> /\ pc = "idle"
    /\ interfaces = NotRendered
    /\ out_file = [exists |-> FALSE, content |-> ""]
    /\ out_file0 = out_file

TypeInit ==
    /\ obj \in LeafSchemas
    /\ rendered = NotRendered
    /\ Idle

\* the schema becomes the `model` of a new schema of kind t
WrapAsModel(t, r) ==
    /\ rendered = NotRendered
    /\ Depth(obj) < MaxDepth
    /\ obj' = ApiDocsModel(t, None, Some(obj), None, r)
    /\ UNCHANGED <<fields, ins, rendered, models, pc, interfaces, out_file, out_file0>>

\* the schema becomes the only entry of the `fields` of a new schema of kind t
WrapAsField(t, r, name) ==
    /\ rendered = NotRendered
    /\ Depth(obj) < MaxDepth
    /\ obj' = ApiDocsModel(t, Some(Insert(<<>>, name, obj)), None, None, r)
    /\ UNCHANGED <<fields, ins, rendered, models, pc, interfaces, out_file, out_file0>>

\* the schema becomes the `model` of a new schema of kind t that also has (empty) `fields`
WrapAsBoth(t, r) ==
    /\ rendered = NotRendered
    /\ Depth(obj) < MaxDepth
    /\ obj' = ApiDocsModel(t, Some(<<>>), Some(obj), None, r)
    /\ UNCHANGED <<fields, ins, rendered, models, pc, interfaces, out_file, out_file0>>

\* let rendered = render_field_type(&obj)
RenderType ==
    /\ rendered = NotRendered
    /\ rendered' = render_field_type(obj)
    /\ UNCHANGED <<obj, fields, ins, models, pc, interfaces, out_file, out_file0>>

WrapTypes == {"String", "Array", "Object"}

TypeNext ==
    \/ \E t \in WrapTypes, r \in BOOLEAN : WrapAsModel(t, r)
    \/ \E t \in WrapTypes, r \in BOOLEAN : WrapAsField(t, r, "foo")
    \/ \E t \in WrapTypes, r \in BOOLEAN : WrapAsBoth(t, r)
    \/ RenderType

SpecType == TypeInit /\ [][TypeNext]_vars

---------------------------------------------------------------------------
(* Claims about render_field_type, checked under SpecType *)

StartsWith(s, prefix) == Len(s) >= Len(prefix) /\ SubSeq(s, 1, Len(prefix)) = prefix

Optional(required, inner) == IF required THEN inner ELSE "Optional<" \o inner \o ">"

\* C1: a String, Number or Boolean schema has the inner type "string", "number"
\* or "boolean"; every schema that renders, scalar, Array or Object, renders as
\* "Optional<" + inner + ">" when it is not required and as its inner type,
\* unchanged, when it is required.
C1_WrappingRule ==
    rendered.outcome # "none" =>
        /\ obj.type = "String" => rendered = Returned(Optional(obj.required, "string"))
        /\ obj.type = "Number" => rendered = Returned(Optional(obj.required, "number"))
        /\ obj.type = "Boolean" => rendered = Returned(Optional(obj.required, "boolean"))
        /\ (obj.type = "Array" /\ rendered.outcome = "returned") =>
                rendered.value =
                    Optional(obj.required, "Array<" \o render_field_type(obj.model[1]).value \o ">")
        /\ (obj.type = "Object" /\ rendered.outcome = "returned") =>
                rendered.value =
                    Optional(obj.required, "{ " \o render_fields(obj.fields[1]).value \o " }")
        /\ (rendered.outcome = "returned" /\ obj.required) =>
                ~StartsWith(rendered.value, "Optional<")

C1_Witness ==
    /\ rendered = Returned("Optional<{ foo?: Optional<number>, }>")
    /\ obj.type = "Object" /\ ~obj.required

\* the Array levels on top of a schema, and the schema below them
IsArray(o) == o.type = "Array" /\ o.model # None

RECURSIVE ArrayLevels(_)
ArrayLevels(o) == IF IsArray(o) THEN 1 + ArrayLevels(o.model[1]) ELSE 0

RECURSIVE Innermost(_)
Innermost(o) == IF IsArray(o) THEN Innermost(o.model[1]) ELSE o

RECURSIVE InnerLevelsRequired(_)
\* every Array level below the outermost one is required
InnerLevelsRequired(o) ==
    ~IsArray(o) \/ ~IsArray(o.model[1])
        \/ (o.model[1].required /\ InnerLevelsRequired(o.model[1]))

RECURSIVE Repeat(_, _)
Repeat(s, n) == IF n = 0 THEN "" ELSE s \o Repeat(s, n - 1)

\* "Array<" n times around the element's type, Optional around the outermost level only
OutermostOnly(o) ==
    LET n == ArrayLevels(o)
        body == Repeat("Array<", n) \o render_field_type(Innermost(o)).value \o Repeat(">", n)
    IN  IF n = 0 THEN body ELSE Optional(o.required, body)

RECURSIVE EveryLevel(_)
\* "Array<" around the element's type, Optional around each level that is not required
EveryLevel(o) ==
    IF IsArray(o) THEN Optional(o.required, "Array<" \o EveryLevel(o.model[1]) \o ">")
    ELSE render_field_type(o).value

\* C2 as stated: n nested Array levels render as "Array<" n times around the
\* innermost element type, with Optional<...> around the outermost result only.
C2_OptionalOnlyOutermost ==
    rendered.outcome = "returned" => rendered.value = OutermostOnly(obj)

\* C2 as amended: when every Array level below the outermost is required, n
\* nested Array levels render as "Array<" n times around the innermost element
\* type with Optional<...> around the outermost result only when the outermost
\* schema is not required; an Array level below the outermost that is not
\* required has its own Optional<...> around it.
C2_NestedArrays ==
    rendered.outcome = "returned" =>
        /\ InnerLevelsRequired(obj) => rendered.value = OutermostOnly(obj)
        /\ rendered.value = EveryLevel(obj)

C2_Witness ==
    /\ rendered = Returned("Optional<Array<Array<string>>>")
    /\ ArrayLevels(obj) = 2 /\ InnerLevelsRequired(obj)

\* C7: rendering an Array schema without its element schema fails on the missing
\* `model`, rendering an Object schema without its fields fails on the missing
\* `fields`, at any depth and whatever `required` is; no type string is produced.
MissingModel(o) == o.type = "Array" /\ o.model = None
MissingFields(o) == o.type = "Object" /\ o.fields = None

C7_MissingChild ==
    /\ \A s \in Subschemas(obj) :
          /\ MissingModel(s) => render_field_type(s) = Panicked(ExpectModelMsg)
          /\ MissingFields(s) => render_field_type(s) = Panicked(ExpectFieldsMsg)
    /\ rendered.outcome # "none" =>
          /\ (\E s \in Visited(obj) : MissingModel(s)) => rendered = Panicked(ExpectModelMsg)
          /\ (\E s \in Visited(obj) : MissingFields(s)) => rendered = Panicked(ExpectFieldsMsg)

C7_Witness ==
    /\ rendered = Panicked(ExpectModelMsg)
    /\ Depth(obj) = 2 /\ obj.type = "Object" /\ ~obj.required
    /\ \E s \in Visited(obj) : MissingModel(s) /\ s.required

\* C9 as stated: an Enum schema met by render_field_type, at the top or nested,
\* gives an UnsupportedKind error returned to the caller, not a panic.
C9_EnumIsCatchableError ==
    (rendered.outcome # "none" /\ \E s \in Visited(obj) : s.type = "Enum") =>
        rendered = [outcome |-> "error", value |-> "UnsupportedKind"]

\* a populated part that the schema's kind does not use
Mismatched(o) ==
    \/ o.type # "Object" /\ o.fields # None
    \/ o.type # "Array" /\ o.model # None
    \/ o.type # "Enum" /\ o.members # None

RECURSIVE Canonical(_)
\* the schema with every part its kind does not use removed, at every level
Canonical(o) ==
    [type |-> o.type,
     required |-> o.required,
     members |-> IF o.type = "Enum" THEN o.members ELSE None,
     model |-> IF o.type = "Array" /\ o.model # None THEN Some(Canonical(o.model[1])) ELSE None,
     fields |-> IF o.type = "Object" /\ o.fields # None
                THEN Some([i \in 1..Len(o.fields[1]) |->
                            <<o.fields[1][i][1], Canonical(o.fields[1][i][2])>>])
                ELSE None]

\* C10 as stated: a schema with a populated part that does not match its kind is
\* a malformed-input error for rendering, never rendered with the part ignored.
C10_KindInvariantEnforced ==
    (rendered.outcome # "none" /\ \E s \in Visited(obj) : Mismatched(s)) =>
        rendered.outcome = "panic"

\* C10 as amended: rendering reads only the part that matches the kind (`model`
\* of an Array, `fields` of an Object, nothing of a scalar); a populated part
\* that does not match is ignored and the schema renders exactly as without it.
\* Rendering fails only on an Array without `model`, an Object without `fields`
\* or an Enum among the schemas it visits.
C10_MismatchIgnored ==
    rendered.outcome # "none" =>
        /\ rendered = render_field_type(Canonical(obj))
        /\ rendered.outcome = "panic" <=>
              \E s \in Visited(obj) : MissingModel(s) \/ MissingFields(s) \/ s.type = "Enum"

C10_Witness ==
    /\ rendered = Returned("Array<string>")
    /\ obj.type = "Array" /\ obj.fields # None
    /\ obj.model[1].type = "String" /\ obj.model[1].members # None

---------------------------------------------------------------------------
(* SpecFields: a field map is built by insertion, in any order of the       *)
(* names, with objects and arrays of objects among the values, and given to *)
(* render_fields.                                                           *)

\* the names of the scalar fields, and the names of the object and array fields:
\* an upper-case name sorts before the others, "fo" is a prefix of "foo"
FieldNames == {"bar", "foo"}
CompositeNames == {"Foo", "fo"}

\* the scalar values of the fields
FieldLeaves ==
    { ApiDocsModel("String", None, None, None, TRUE),
      ApiDocsModel("Boolean", None, None, None, TRUE),
      ApiDocsModel("Number", None, None, None, FALSE) }

RECURSIVE Nodes(_)
\* number of schemas in the tree
Nodes(o) ==
    1 + (IF o.model = None THEN 0 ELSE Nodes(o.model[1]))
      + (IF o.fields = None THEN 0 ELSE
            LET m == o.fields[1]
                sum[i \in 0..Len(m)] == IF i = 0 THEN 0 ELSE sum[i - 1] + Nodes(m[i][2])
            IN  sum[Len(m)])

\* number of schemas built so far
Built ==
    LET sum[i \in 0..Len(ins)] == IF i = 0 THEN 0 ELSE sum[i - 1] + Nodes(ins[i][2])
    IN  sum[Len(ins)] + (IF obj = None THEN 0 ELSE Nodes(obj[1]))

FieldsInit ==
    /\ obj = None
    /\ fields = <<>>
    /\ ins = <<>>
    /\ rendered = NotRendered
    /\ models = <<>> /\ pc = "idle"
    /\ interfaces = NotRendered
    /\ out_file = [exists |-> FALSE, content |-> ""]
    /\ out_file0 = out_file

\* fields.insert(name, leaf)
InsertLeaf(name, leaf) ==
    /\ rendered = NotRendered
    /\ name \notin Keys(fields)
    /\ Built < MaxNodes
    /\ fields' = Insert(fields, name, leaf)
    /\ ins' = Append(ins, <<name, leaf>>)
    /\ UNCHANGED <<obj, rendered, models, pc, interfaces, out_file, out_file0>>

\* fields.insert(name, obj): the composite built last becomes a field
InsertObj(name) ==
    /\ rendered = NotRendered
    /\ obj # None
    /\ name \notin Keys(fields)
    /\ fields' = Insert(fields, name, obj[1])
    /\ ins' = Append(ins, <<name, obj[1]>>)
    /\ obj' = None
    /\ UNCHANGED <<rendered, models, pc, interfaces, out_file, out_file0>>

\* the map built so far becomes the `fields` of a new Object schema
CloseObject(r) ==
    /\ rendered = NotRendered
    /\ obj = None
    /\ Built < MaxNodes
    /\ obj' = Some(ApiDocsModel("Object", Some(fields), None, None, r))
    /\ fields' = <<>>
    /\ ins' = <<>>
    /\ UNCHANGED <<rendered, models, pc, interfaces, out_file, out_file0>>

\* the composite built last becomes the `model` of a new Array schema
WrapArray(r) ==
    /\ rendered = NotRendered
    /\ obj # None
    /\ Built < MaxNodes
    /\ obj' = Some(ApiDocsModel("Array", None, Some(obj[1]), None, r))
    /\ UNCHANGED <<fields, ins, rendered, models, pc, interfaces, out_file, out_file0>>

\* let rendered = render_fields(&fields), once no composite is left to insert
RenderFields ==
    /\ rendered = NotRendered
    /\ obj = None
    /\ rendered' = render_fields(fields)
    /\ UNCHANGED <<obj, fields, ins, models, pc, interfaces, out_file, out_file0>>

FieldsNext ==
    \/ \E name \in FieldNames, leaf \in FieldLeaves : InsertLeaf(name, leaf)
    \/ \E name \in CompositeNames : InsertObj(name)
    \/ \E r \in BOOLEAN : CloseObject(r)
    \/ \E r \in BOOLEAN : WrapArray(r)
    \/ RenderFields

SpecFields == FieldsInit /\ [][FieldsNext]_vars

---------------------------------------------------------------------------
(* Claims about render_field and render_fields, checked under SpecFields *)

\* a < b in the lexical order of the bytes, stated without recursion
LexLess(a, b) ==
    \E i \in 1..Len(b) :
        /\ \A j \in 1..(i - 1) : j <= Len(a) /\ CharAt(a, j) = CharAt(b, j)
        /\ \/ i = Len(a) + 1
           \/ i <= Len(a) /\ CharCode(CharAt(a, i)) < CharCode(CharAt(b, i))

\* every (name, schema) entry of the map and of the objects nested in it
EntriesOf(m) ==
    { m[i] : i \in 1..Len(m) }
        \cup UNION { { f[j] : j \in 1..Len(f) } :
                        f \in { s.fields[1] : s \in { t \in UNION { Subschemas(m[i][2]) : i \in 1..Len(m) } :
                                                        t.fields # None } } }

\* the maps at every depth: m and those of the objects nested in it
MapsOf(m) ==
    {m} \cup { s.fields[1] :
                s \in { t \in UNION { Subschemas(m[i][2]) : i \in 1..Len(m) } : t.fields # None } }

\* the field line the claims describe
FieldLine(name, schema) ==
    name \o (IF schema.required THEN "" ELSE "?") \o ": "
         \o render_field_type(schema).value \o ","

\* C3: render_field gives name + marker + ": " + render_field_type(schema) + ","
\* with marker "" for a required schema and "?" otherwise, so a line has the "?"
\* marker exactly when its type is wrapped in "Optional<...>".
C3_FieldLine ==
    rendered.outcome # "none" =>
        /\ \A e \in EntriesOf(fields) :
              LET line == render_field(e[1], e[2])
                  type == render_field_type(e[2])
              IN  /\ line.outcome = type.outcome
                  /\ line.outcome = "returned" =>
                        /\ line.value = FieldLine(e[1], e[2])
                        /\ StartsWith(line.value, e[1] \o "?: ") <=> StartsWith(type.value, "Optional<")
                        /\ StartsWith(line.value, e[1] \o ": ") <=> ~StartsWith(type.value, "Optional<")
        /\ Len(fields) = 1 => rendered = Returned(FieldLine(fields[1][1], fields[1][2]))
        /\ fields = << <<"foo", ApiDocsModel("Boolean", None, None, None, TRUE)>> >>
              => rendered = Returned("foo: boolean,")
        /\ fields = << <<"foo", ApiDocsModel("Number", None, None, None, FALSE)>> >>
              => rendered = Returned("foo?: Optional<number>,")

C3_Witness ==
    /\ Len(fields) = 1
    /\ fields[1][2].type = "Array" /\ ~fields[1][2].required
    /\ rendered = Returned("Foo?: Optional<Array<{ bar?: Optional<number>, }>>,")

RECURSIVE LinesAscending(_, _)
\* the lines of the entries named in `names`, smallest name first
LinesAscending(m, names) ==
    IF names = {} THEN ""
    ELSE LET least == CHOOSE n \in names : \A o \in names \ {n} : LexLess(n, o)
             entry == CHOOSE e \in { m[i] : i \in 1..Len(m) } : e[1] = least
         IN  FieldLine(entry[1], entry[2]) \o LinesAscending(m, names \ {least})

\* the entries es in the order p
Permuted(es, p) == [i \in 1..Len(es) |-> es[p[i]]]

\* C4: render_fields gives the lines of render_field for all entries in
\* ascending lexical order of the names, with nothing between them, whatever
\* the order the entries were inserted in; a model without fields gives "".
C4_FieldsAscending ==
    rendered.outcome # "none" =>
        /\ fields = FromEntries(ins)
        /\ \A i \in 1..(Len(fields) - 1) : LexLess(fields[i][1], fields[i + 1][1])
        /\ rendered = Returned(LinesAscending(fields, Keys(fields)))
        /\ \A p \in Permutations(1..Len(ins)) :
              render_fields(FromEntries(Permuted(ins, p))) = rendered
        /\ fields = <<>> => rendered = Returned("")

C4_Witness ==
    /\ Len(ins) = 3
    /\ ins[1][1] = "foo" /\ ins[2][1] = "fo" /\ ins[3][1] = "bar"
    /\ rendered = Returned("bar: boolean,fo?: Optional<{  }>,foo: string,")

FooStringBarBoolean ==
    ApiDocsModel("Object",
                 Some(<< <<"bar", ApiDocsModel("Boolean", None, None, None, TRUE)>>,
                         <<"foo", ApiDocsModel("String", None, None, None, TRUE)>> >>),
                 None, None, TRUE)

\* C5: an Object schema with its fields renders as "{ " + render_fields(fields)
\* + " }", then the Optional rule, the nested fields in ascending name order at
\* every depth; {foo: required string, bar: required boolean} renders as
\* "{ bar: boolean,foo: string, }" in its parent's field line and, as the
\* required element of a non-required array, as
\* "Optional<Array<{ bar: boolean,foo: string, }>>".
C5_ObjectRendering ==
    rendered.outcome # "none" =>
        /\ \A m \in MapsOf(fields) :
              \A i \in 1..(Len(m) - 1) : LexLess(m[i][1], m[i + 1][1])
        /\ \A e \in EntriesOf(fields) :
              /\ (e[2].type = "Object" /\ e[2].fields # None) =>
                    LET m == e[2].fields[1]
                    IN  render_field_type(e[2]) =
                            Returned(Optional(e[2].required, "{ " \o LinesAscending(m, Keys(m)) \o " }"))
              /\ e[2] = FooStringBarBoolean =>
                    render_field(e[1], e[2]) = Returned(e[1] \o ": { bar: boolean,foo: string, },")
              /\ e[2] = ApiDocsModel("Array", None, Some(FooStringBarBoolean), None, FALSE) =>
                    render_field_type(e[2]) = Returned("Optional<Array<{ bar: boolean,foo: string, }>>")
        /\ fields = << <<"fo", FooStringBarBoolean>>,
                       <<"foo", ApiDocsModel("String", None, None, None, TRUE)>> >> =>
              rendered = Returned("fo: { bar: boolean,foo: string, },foo: string,")
        /\ fields = << <<"Foo", ApiDocsModel("Array", None, Some(FooStringBarBoolean), None, FALSE)>> >> =>
              rendered = Returned("Foo?: Optional<Array<{ bar: boolean,foo: string, }>>,")

C5_Witness ==
    /\ Len(fields) = 2
    /\ fields[1][2] = FooStringBarBoolean
    /\ rendered = Returned("fo: { bar: boolean,foo: string, },foo: string,")

\* the same object as the required element of an array that is not required
C5_WitnessInArray ==
    /\ Len(fields) = 1
    /\ fields[1][2].type = "Array" /\ fields[1][2].model[1] = FooStringBarBoolean
    /\ rendered = Returned("Foo?: Optional<Array<{ bar: boolean,foo: string, }>>,")

---------------------------------------------------------------------------
(* Spec: a run of main.  The loader (serde_json::from_reader) inserts the   *)
(* models of the document into api_docs.models one by one; then the catalog *)
(* is rendered, the output file opened and the text written.                *)

ModelNames == {"Foo", "bar", "foo_bar", "foo-bar"}

Scalar(t, r) == ApiDocsModel(t, None, None, None, r)

\* the models of the input documents
SampleModels ==
    { <<>>,
      << <<"baz", Scalar("Boolean", TRUE)>> >>,
      << <<"bar", FooStringBarBoolean>>, <<"foo", Scalar("String", TRUE)>> >>,
      << <<"kind", ApiDocsModel("Enum", None, None, Some(<<>>), TRUE)>> >>,
      << <<"items", ApiDocsModel("Array", None, None, None, FALSE)>> >>,
      << <<"a", Scalar("Number", FALSE)>>,
         <<"b", ApiDocsModel("Array", None,
                             Some(ApiDocsModel("Object", None, None, None, TRUE)), None, TRUE)>> >>,
      << <<"foo", ApiDocsModel("String", None,
                               Some(ApiDocsModel("Enum", None, None, None, TRUE)), None, TRUE)>> >> }

\* the output file before the run: absent, or left by an earlier run
MainInit ==
    /\ pc = "args"
    /\ models = <<>>
    /\ interfaces = NotRendered
    /\ out_file \in { [exists |-> FALSE, content |-> ""], [exists |-> TRUE, content |-> "old"] }
    /\ out_file0 = out_file
    /\ obj = None /\ fields = <<>> /\ ins = <<>> /\ rendered = NotRendered

\* color_eyre::install()? and the two value_from_str(..)? : an Err returns from main
ParseArgs ==
    /\ pc = "args"
    /\ pc' \in {"load", "error"}
    /\ UNCHANGED <<obj, fields, ins, rendered, models, interfaces, out_file, out_file0>>

\* serde_json::from_reader: the next model of the document enters api_docs.models
Deserialize(name, model) ==
    /\ pc = "load"
    /\ Len(models) < MaxModels
    /\ models' = Insert(models, name, model)
    /\ UNCHANGED <<obj, fields, ins, rendered, pc, interfaces, out_file, out_file0>>

\* File::open(..)? or serde_json::from_reader(..)? fails: an Err returns from main
LoadFails ==
    /\ pc = "load"
    /\ pc' = "error"
    /\ UNCHANGED <<obj, fields, ins, rendered, models, interfaces, out_file, out_file0>>

\* mutant of Render: the output file is created and truncated before rendering
RenderIntoOpenedFile ==
    /\ pc = "load"
    /\ LET r == render_interfaces(models)
       IN  IF r.outcome = "panic"
           THEN /\ pc' = "panicked"
                /\ out_file' = [exists |-> TRUE, content |-> ""]
                /\ UNCHANGED interfaces
           ELSE /\ pc' = "open_out"
                /\ interfaces' = r
                /\ UNCHANGED out_file
    /\ UNCHANGED <<obj, fields, ins, rendered, models, out_file0>>

\* let interfaces = render_interfaces(&api_docs.models); a panic ends the process
Render ==
    /\ pc = "load"
    /\ LET r == render_interfaces(models)
       IN  IF r.outcome = "panic"
           THEN pc' = "panicked" /\ UNCHANGED interfaces
           ELSE pc' = "open_out" /\ interfaces' = r
    /\ UNCHANGED <<obj, fields, ins, rendered, models, out_file, out_file0>>

\* OpenOptions::new().create(true).write(true).truncate(true).open(&args.out)?
OpenOut ==
    /\ pc = "open_out"
    /\ \/ pc' = "write" /\ out_file' = [exists |-> TRUE, content |-> ""]
       \/ pc' = "error" /\ UNCHANGED out_file
    /\ UNCHANGED <<obj, fields, ins, rendered, models, interfaces, out_file0>>

\* out_file.write_all(interfaces.as_bytes()); the Result is dropped, so a failed
\* write, which may have written a part of the text, is not reported; Ok(())
WriteAll ==
    /\ pc = "write"
    /\ \E n \in {0, Len(interfaces.value) \div 2, Len(interfaces.value)} :
          out_file' = [exists |-> TRUE, content |-> SubSeq(interfaces.value, 1, n)]
    /\ pc' = "done"
    /\ UNCHANGED <<obj, fields, ins, rendered, models, interfaces, out_file0>>

Next ==
    \/ ParseArgs
    \/ \E name \in ModelNames, model \in SampleModels : Deserialize(name, model)
    \/ LoadFails
    \/ Render
    \/ OpenOut
    \/ WriteAll

Init == MainInit

Spec == Init /\ [][Next]_vars

---------------------------------------------------------------------------
(* Claims about render_interfaces and main, checked under Spec *)

\* the interface names the claim gives for the catalog keys
PascalName(key) ==
    CASE key = "Foo" -> "Foo"
      [] key = "bar" -> "Bar"
      [] key = "foo_bar" -> "FooBar"
      [] key = "foo-bar" -> "FooBar"

RECURSIVE DeclarationsAscending(_, _)
\* the declarations of the models named in `names`, smallest catalog key first
DeclarationsAscending(ms, names) ==
    IF names = {} THEN ""
    ELSE LET least == CHOOSE n \in names : \A o \in names \ {n} : LexLess(n, o)
             entry == CHOOSE e \in { ms[i] : i \in 1..Len(ms) } : e[1] = least
         IN  "interface " \o PascalName(least) \o " { " \o render_fields(entry[2]).value \o " }"
                 \o DeclarationsAscending(ms, names \ {least})

\* number of places of text where word starts
Occurrences(word, text) ==
    Cardinality({ i \in 1..(Len(text) - Len(word) + 1) :
                    SubSeq(text, i, i + Len(word) - 1) = word })

\* C6: render_interfaces gives, in ascending order of the catalog keys and with
\* nothing between them, "interface " + UpperCamelCase(key) + " { " +
\* render_fields(model) + " }" for each entry: one declaration per entry;
\* "foo_bar" and "foo-bar" both give FooBar; {"Foo": {baz: required boolean}}
\* gives "interface Foo { baz: boolean, }".
C6_Interfaces ==
    interfaces.outcome = "returned" =>
        /\ interfaces.value = DeclarationsAscending(models, Keys(models))
        /\ Occurrences("interface ", interfaces.value) = Len(models)
        /\ \A i \in 1..Len(models) :
              models[i][1] \in {"foo_bar", "foo-bar"} =>
                  Occurrences("interface FooBar { ", interfaces.value) >= 1
        /\ models = << <<"Foo", << <<"baz", Scalar("Boolean", TRUE)>> >> >> >> =>
              interfaces.value = "interface Foo { baz: boolean, }"

C6_Witness ==
    /\ pc = "done"
    /\ Keys(models) = {"foo_bar", "Foo"}
    /\ out_file.content = "interface Foo {  }interface FooBar { baz: boolean, }"

\* both spellings of the key in one catalog: two declarations named FooBar
C6_WitnessBothKeys ==
    /\ Keys(models) = {"foo_bar", "foo-bar"}
    /\ interfaces = Returned("interface FooBar { baz: boolean, }interface FooBar {  }")

\* a schema that cannot be rendered
Malformed(o) == MissingModel(o) \/ MissingFields(o) \/ o.type = "Enum"

\* the schemas of the catalog: all of them, and those the renderer visits
CatalogSubschemas(ms) ==
    UNION { UNION { Subschemas(ms[i][2][j][2]) : j \in 1..Len(ms[i][2]) } : i \in 1..Len(ms) }

CatalogVisited(ms) ==
    UNION { UNION { Visited(ms[i][2][j][2]) : j \in 1..Len(ms[i][2]) } : i \in 1..Len(ms) }

RenderRan == pc = "panicked" \/ interfaces # NotRendered

\* C8 as stated: a malformed schema anywhere in the catalog aborts the rendering
\* of the whole catalog, no text is emitted, and the output file is not
\* created, truncated or written.
C8_AnyMalformedAborts ==
    (RenderRan /\ \E o \in CatalogSubschemas(models) : Malformed(o)) =>
        /\ pc = "panicked"
        /\ interfaces = NotRendered
        /\ out_file = out_file0

\* C8 as amended: a malformed schema among those the renderer visits (a field
\* of a model, the element of an Array, a field of an Object) aborts the
\* rendering of the whole catalog, also when other models, earlier ones in key
\* order included, render; no text is emitted and the output file is not
\* created, truncated or written, because it is opened only after rendering
\* has completed.
C8_FailFast ==
    /\ (RenderRan /\ \E o \in CatalogVisited(models) : Malformed(o)) =>
          /\ pc = "panicked"
          /\ interfaces = NotRendered
          /\ out_file = out_file0
    /\ pc = "panicked" => interfaces = NotRendered /\ out_file = out_file0
    /\ out_file # out_file0 => interfaces.outcome = "returned"
    /\ pc \in {"write", "done"} => interfaces.outcome = "returned"

C8_Witness ==
    /\ pc = "panicked"
    /\ Len(models) = 2
    /\ render_fields(models[1][2]) = Returned("baz: boolean,")
    /\ render_fields(models[2][2]) = Panicked(ExpectFieldsMsg)
    /\ out_file0 = [exists |-> TRUE, content |-> "old"]

====
